---- MODULE Spec2Model ----
(***************************************************************************)
(* Model of nlib3.JsonData (src/nlib3/nlib.py): a store that holds one     *)
(* value of a JSON file, addressed by a path of keys, together with the    *)
(* helpers it calls: load_json, save_json, update_nest_dict, can_cast.     *)
(*                                                                         *)
(* Python values are a tagged variant [t, n, s, o, a]:                     *)
(*   t = "null" | "bool" | "int" | "float" | "str" | "arr" | "obj"         *)
(*   n : the number (bool: 0/1, float: the float n + 0.5)                  *)
(*   s : the characters of a str                                           *)
(*   o : the mapping of a dict (key -> value)                              *)
(*   a : the elements of a list                                            *)
(* The file holds JSON text, modelled as its sequence of lexical tokens.   *)
(***************************************************************************)
EXTENDS Integers, Sequences, FiniteSets, TLC

VARIABLES
    file,       \* the backing file at self.path: [kind, toks]
    store,      \* instance id -> [keys, default, data, load_error_flag]
    last,       \* the last call made and what it returned to its caller
    saving      \* instance id -> its save() under way: [pc, json_data, ret]

vars == <<file, store, last, saving>>

----------------------------------------------------------------------------
(* Bounds *)

MaxInt == 3         \* counters are incremented while the result is <= MaxInt

----------------------------------------------------------------------------
(* Python values *)

NoMap == [k \in {} |-> 0]

JNull     == [t |-> "null",  n |-> 0, s |-> "", o |-> NoMap, a |-> <<>>]
JBool(b)  == [t |-> "bool",  n |-> IF b THEN 1 ELSE 0, s |-> "", o |-> NoMap, a |-> <<>>]
JInt(i)   == [t |-> "int",   n |-> i, s |-> "", o |-> NoMap, a |-> <<>>]
JFloat(i) == [t |-> "float", n |-> i, s |-> "", o |-> NoMap, a |-> <<>>]
JStr(x)   == [t |-> "str",   n |-> 0, s |-> x,  o |-> NoMap, a |-> <<>>]
JArr(xs)  == [t |-> "arr",   n |-> 0, s |-> "", o |-> NoMap, a |-> xs]
JObj(m)   == [t |-> "obj",   n |-> 0, s |-> "", o |-> m,     a |-> <<>>]

EmptyDict == JObj(NoMap)

\* dictionary[k] = v on a dict
DictSet(m, k, v) == [x \in (DOMAIN m) \cup {k} |-> IF x = k THEN v ELSE m[x]]

\* a dict literal with one / two entries
D1(k, v) == JObj(DictSet(NoMap, k, v))
D2(k1, v1, k2, v2) == JObj(DictSet(DictSet(NoMap, k1, v1), k2, v2))

----------------------------------------------------------------------------
(* JSON text: json.dump / json.load *)

Tok(k)        == [k |-> k, n |-> 0, s |-> ""]
NumTok(k, i)  == [k |-> k, n |-> i, s |-> ""]
StrTok(x)     == [k |-> "str", n |-> 0, s |-> x]

\* json.dump writes a dict's members in the dict's order; the model keeps no
\* order in a dict and writes the members in this fixed order of the keys.
KeyOrder == <<"c", "count", "stats">>

RECURSIVE Dumps(_), DumpMembers(_, _, _), DumpElems(_, _)
Dumps(v) ==
    CASE v.t = "null"  -> <<Tok("null")>>
      [] v.t = "bool"  -> <<IF v.n = 1 THEN Tok("true") ELSE Tok("false")>>
      [] v.t = "int"   -> <<NumTok("int", v.n)>>
      [] v.t = "float" -> <<NumTok("float", v.n)>>
      [] v.t = "str"   -> <<StrTok(v.s)>>
      [] v.t = "arr"   -> <<Tok("[")>> \o DumpElems(v.a, 1) \o <<Tok("]")>>
      [] v.t = "obj"   -> <<Tok("{")>> \o DumpMembers(v.o, 1, TRUE) \o <<Tok("}")>>

DumpElems(xs, i) ==
    IF i > Len(xs) THEN <<>>
    ELSE (IF i > 1 THEN <<Tok(",")>> ELSE <<>>) \o Dumps(xs[i]) \o DumpElems(xs, i + 1)

DumpMembers(m, i, first) ==
    IF i > Len(KeyOrder) THEN <<>>
    ELSE IF KeyOrder[i] \in DOMAIN m
         THEN (IF first THEN <<>> ELSE <<Tok(",")>>)
              \o <<StrTok(KeyOrder[i]), Tok(":")>> \o Dumps(m[KeyOrder[i]])
              \o DumpMembers(m, i + 1, FALSE)
         ELSE DumpMembers(m, i + 1, first)

\* The decoder reads the text token by token. Its state: the containers
\* that are still open (innermost last), each with the elements or members
\* read so far and the key whose value is awaited; what it expects next;
\* the value, once the text has been read to its end.
Frame(t, a, o, key) == [t |-> t, a |-> a, o |-> o, key |-> key]

Decoding(stack, exp, v) == [err |-> FALSE, stack |-> stack, exp |-> exp, v |-> v]

DecodeError == [err |-> TRUE, stack |-> <<>>, exp |-> "end", v |-> JNull]

DecodeStart == Decoding(<<>>, "value", JNull)

Top(stack) == stack[Len(stack)]

Pop(stack) == SubSeq(stack, 1, Len(stack) - 1)

\* a value has been read: it is the text's value, an element of the
\* innermost open list, or the value of the awaited key of the innermost
\* open dict (a key met twice keeps its last value)
Complete(stack, v) ==
    IF stack = <<>> THEN Decoding(<<>>, "end", v)
    ELSE LET f == Top(stack)
             g == IF f.t = "arr" THEN Frame("arr", Append(f.a, v), f.o, "")
                  ELSE Frame("obj", f.a, DictSet(f.o, f.key, v), "")
         IN Decoding(Append(Pop(stack), g), "comma_or_close", JNull)

\* the decoder's state after one more token
Step(st, tok) ==
    LET stack    == st.stack
        wantsVal == st.exp \in {"value", "value_or_close"}
        inArr    == stack # <<>> /\ Top(stack).t = "arr"
        inObj    == stack # <<>> /\ Top(stack).t = "obj"
    IN CASE wantsVal /\ tok.k = "null"  -> Complete(stack, JNull)
         [] wantsVal /\ tok.k = "true"  -> Complete(stack, JBool(TRUE))
         [] wantsVal /\ tok.k = "false" -> Complete(stack, JBool(FALSE))
         [] wantsVal /\ tok.k = "int"   -> Complete(stack, JInt(tok.n))
         [] wantsVal /\ tok.k = "float" -> Complete(stack, JFloat(tok.n))
         [] wantsVal /\ tok.k = "str"   -> Complete(stack, JStr(tok.s))
         [] wantsVal /\ tok.k = "["     ->
                Decoding(Append(stack, Frame("arr", <<>>, NoMap, "")), "value_or_close", JNull)
         [] wantsVal /\ tok.k = "{"     ->
                Decoding(Append(stack, Frame("obj", <<>>, NoMap, "")), "key_or_close", JNull)
         [] tok.k = "]" /\ inArr /\ st.exp \in {"value_or_close", "comma_or_close"} ->
                Complete(Pop(stack), JArr(Top(stack).a))
         [] tok.k = "}" /\ inObj /\ st.exp \in {"key_or_close", "comma_or_close"} ->
                Complete(Pop(stack), JObj(Top(stack).o))
         [] tok.k = "," /\ st.exp = "comma_or_close" ->
                Decoding(stack, IF inArr THEN "value" ELSE "key", JNull)
         [] tok.k = "str" /\ st.exp \in {"key", "key_or_close"} ->
                Decoding(Append(Pop(stack), Frame("obj", <<>>, Top(stack).o, tok.s)), "colon", JNull)
         [] tok.k = ":" /\ st.exp = "colon" -> Decoding(stack, "value", JNull)
         [] OTHER -> DecodeError

RECURSIVE Decode(_, _, _)
Decode(toks, i, st) ==
    IF st.err \/ i > Len(toks) THEN st ELSE Decode(toks, i + 1, Step(st, toks[i]))

\* the decoder at the end of the text: its value, or none
Decoded(st) ==
    IF ~st.err /\ st.exp = "end" THEN [ok |-> TRUE, v |-> st.v]
    ELSE [ok |-> FALSE, v |-> JNull]

\* json.load: the whole text is one value, or JSONDecodeError
Loads(toks) == Decoded(Decode(toks, 1, DecodeStart))

----------------------------------------------------------------------------
(* The file system at self.path *)

NoDir      == [kind |-> "nodir",      toks |-> <<>>]  \* the parent directory is missing
Missing    == [kind |-> "missing",    toks |-> <<>>]  \* no file at the path
Unreadable == [kind |-> "unreadable", toks |-> <<>>]  \* a file that open() may not read
Text(toks) == [kind |-> "text",       toks |-> toks]
FileOf(v)  == Text(Dumps(v))

\* what json.load gives load_json: the value, or JSONDecodeError
json_load(p) ==
    IF p.ok THEN [exc |-> "none", v |-> p.v] ELSE [exc |-> "JSONDecodeError", v |-> JNull]

\* load_json: open(file_path, "r") then json.load
load_json(f) ==
    CASE f.kind \in {"nodir", "missing"} -> [exc |-> "FileNotFoundError", v |-> JNull]
      [] f.kind = "unreadable"           -> [exc |-> "PermissionError", v |-> JNull]
      [] OTHER                           -> json_load(Loads(f.toks))

\* (mutant) the file is opened with "a": the text is appended
save_json_append(f, obj) ==
    IF f.kind = "nodir" THEN [exc |-> "FileNotFoundError", file |-> f]
    ELSE [exc |-> "none", file |-> Text(f.toks \o Dumps(obj))]

\* save_json: open(file_path, "w") then json.dump; open creates the file but
\* not its directory
save_json(f, obj) ==
    IF f.kind = "nodir" THEN [exc |-> "FileNotFoundError", file |-> f]
    ELSE [exc |-> "none", file |-> Text(Dumps(obj))]

----------------------------------------------------------------------------
(* JsonData *)

\* self.keys as given to the constructor: a bare str or a list/tuple of str
BareKey(k)   == [bare |-> TRUE,  ks |-> <<k>>]
KeyList(ks)  == [bare |-> FALSE, ks |-> ks]

\* (self.keys, ) for a bare key, the keys themselves otherwise
AsTuple(keys) == KeyList(keys.ks)

\* json_data[row] with a str row
GetItem(v, row) ==
    IF v.t = "obj"
    THEN IF row \in DOMAIN v.o THEN [exc |-> "none", v |-> v.o[row]]
         ELSE [exc |-> "KeyError", v |-> JNull]
    ELSE [exc |-> "TypeError", v |-> JNull]

\* (mutant) the walk stops after the first key
WalkFirstKey(v, ks) ==
    IF ks = <<>> THEN [exc |-> "none", v |-> v] ELSE GetItem(v, Head(ks))

\* for row in self.keys: json_data = json_data[row]
RECURSIVE Walk(_, _)
Walk(v, ks) ==
    IF ks = <<>> THEN [exc |-> "none", v |-> v]
    ELSE LET r == GetItem(v, Head(ks))
         IN IF r.exc # "none" THEN r ELSE Walk(r.v, Tail(ks))

\* (mutant) load() catches KeyError only: any other exception of the walk
\* leaves the call
walked_key_error_only(t, w) ==
    CASE w.exc = "none"     -> [s |-> [t EXCEPT !.data = w.v], ret |-> TRUE, exc |-> "none"]
      [] w.exc = "KeyError" -> [s |-> [t EXCEPT !.data = t.default], ret |-> TRUE,
                                exc |-> "none"]
      [] OTHER -> [s |-> t, ret |-> FALSE, exc |-> w.exc]

\* load() after the walk w along the keys (t: the instance with its keys
\* made a tuple)
walked(t, w) ==
    CASE w.exc = "none"     -> [s |-> [t EXCEPT !.data = w.v], ret |-> TRUE, exc |-> "none"]
      [] w.exc = "KeyError" -> [s |-> [t EXCEPT !.data = t.default], ret |-> TRUE,
                                exc |-> "none"]
      [] OTHER -> [s |-> [t EXCEPT !.data = t.default, !.load_error_flag = TRUE],
                   ret |-> FALSE, exc |-> "none"]

\* (mutant) every exception of load_json is taken for a missing file
loaded_any_error_is_missing(s, r) ==
    IF r.exc # "none"
    THEN [s |-> [s EXCEPT !.data = s.default], ret |-> TRUE, exc |-> "none"]
    ELSE walked([s EXCEPT !.keys = AsTuple(s.keys)], Walk(r.v, s.keys.ks))

\* load() after load_json gave r
loaded(s, r) ==
    IF r.exc = "FileNotFoundError"
    THEN [s |-> [s EXCEPT !.data = s.default], ret |-> TRUE, exc |-> "none"]
    ELSE IF r.exc # "none"
    THEN [s |-> [s EXCEPT !.data = s.default, !.load_error_flag = TRUE], ret |-> FALSE,
          exc |-> "none"]
    ELSE walked([s EXCEPT !.keys = AsTuple(s.keys)], Walk(r.v, s.keys.ks))

\* JsonData.load: the instance afterwards, the value returned and the
\* exception that leaves the call ("none": every one is caught)
load(s, f) == loaded(s, load_json(f))

\* JsonData.__init__
JsonData(keys, default, f) ==
    load([keys |-> keys, default |-> default, data |-> JNull, load_error_flag |-> FALSE], f)

\* {k1: {k2: ... value}}
RECURSIVE Nested(_, _)
Nested(ks, value) ==
    IF ks = <<>> THEN value ELSE JObj(DictSet(NoMap, Head(ks), Nested(Tail(ks), value)))

\* (mutant) the key before the last always gets a new dict
update_nest_dict_new_dict(dictionary, ks, value) ==
    IF dictionary.t # "obj" THEN [exc |-> "TypeError", d |-> dictionary, ret |-> FALSE]
    ELSE [exc |-> "none", d |-> JObj(DictSet(dictionary.o, ks[1], Nested(Tail(ks), value))),
          ret |-> Len(ks) = 1]

\* update_nest_dict after its recursive call gave u for dictionary[key]
nest_updated(dictionary, key, u) ==
    [exc |-> u.exc, d |-> JObj(DictSet(dictionary.o, key, u.d)), ret |-> FALSE]

\* (mutant) what is no dict where one is needed is replaced by a new dict
RECURSIVE update_nest_dict_coerce(_, _, _)
update_nest_dict_coerce(dictionary, ks, value) ==
    IF dictionary.t # "obj" THEN update_nest_dict_coerce(EmptyDict, ks, value)
    ELSE IF Len(ks) = 1
    THEN [exc |-> "none", d |-> JObj(DictSet(dictionary.o, ks[1], value)), ret |-> TRUE]
    ELSE nest_updated(dictionary, ks[1],
                      update_nest_dict_coerce(IF ks[1] \in DOMAIN dictionary.o
                                              THEN dictionary.o[ks[1]] ELSE EmptyDict,
                                              Tail(ks), value))

\* update_nest_dict: the dictionary afterwards, the value returned, or the
\* exception raised (in, [] and []= on anything but a dict end in TypeError
\* for a str key)
RECURSIVE update_nest_dict(_, _, _)
update_nest_dict(dictionary, ks, value) ==
    IF dictionary.t # "obj" THEN [exc |-> "TypeError", d |-> dictionary, ret |-> FALSE]
    ELSE IF Len(ks) = 1
    THEN [exc |-> "none", d |-> JObj(DictSet(dictionary.o, ks[1], value)), ret |-> TRUE]
    ELSE nest_updated(dictionary, ks[1],
                      update_nest_dict(IF ks[1] \in DOMAIN dictionary.o
                                       THEN dictionary.o[ks[1]] ELSE EmptyDict,
                                       Tail(ks), value))

\* (mutant) save() always merges into an empty mapping
Reread_always_empty(r) == [abort |-> FALSE, doc |-> EmptyDict]

\* what save() does with the outcome of its re-read: the document to merge
\* into, or abort
Reread(r) ==
    CASE r.exc = "none"                                   -> [abort |-> FALSE, doc |-> r.v]
      [] r.exc \in {"FileNotFoundError", "JSONDecodeError"} -> [abort |-> FALSE, doc |-> EmptyDict]
      [] OTHER                                            -> [abort |-> TRUE, doc |-> EmptyDict]

\* save() after save_json gave w
written(f, w) ==
    IF w.exc # "none" THEN [file |-> f, ret |-> FALSE, exc |-> "none"]
    ELSE [file |-> w.file, ret |-> TRUE, exc |-> "none"]

\* save() after update_nest_dict gave u: write the document, unless it raised
write(f, u) ==
    IF u.exc # "none" THEN [file |-> f, ret |-> FALSE, exc |-> "none"]
    ELSE written(f, save_json(f, u.d))

\* save() after its re-read gave b: merge the stored value in, unless aborted
merge(s, f, b) ==
    IF b.abort THEN [file |-> f, ret |-> FALSE, exc |-> "none"]
    ELSE write(f, update_nest_dict(b.doc, s.keys.ks, s.data))

\* JsonData.save after its guard: re-read, merge, write
merge_and_write(s, f) == merge(s, f, Reread(load_json(f)))

\* (mutant) save without its guard on the load-failure flag
save_unguarded(s, f) == merge_and_write(s, f)

\* JsonData.save: the file afterwards, the value returned and the exception
\* that leaves the call
save(s, f) ==
    IF s.load_error_flag THEN [file |-> f, ret |-> FALSE, exc |-> "none"]
    ELSE merge_and_write(s, f)

\* set() after save() gave r (t: the instance with the new value)
set_saved(t, r) == [s |-> t, file |-> r.file, ret |-> r.ret, exc |-> r.exc]

\* (mutant) set saves before it stores the new value
set_save_first(s, f, data, save_flag) ==
    IF save_flag
    THEN set_saved([s EXCEPT !.data = data], save(s, f))
    ELSE [s |-> [s EXCEPT !.data = data], file |-> f, ret |-> FALSE, exc |-> "none"]

\* (mutant) set saves whatever save_flag is
set_always_saves(s, f, data, save_flag) ==
    set_saved([s EXCEPT !.data = data], save([s EXCEPT !.data = data], f))

\* JsonData.set: the instance and the file afterwards, the value returned
set(s, f, data, save_flag) ==
    IF save_flag
    THEN set_saved([s EXCEPT !.data = data], save([s EXCEPT !.data = data], f))
    ELSE [s |-> [s EXCEPT !.data = data], file |-> f, ret |-> FALSE, exc |-> "none"]

\* int(x) of a str: the decimal literals among the strings of the model
IntOfStr(x) ==
    CASE x = "7"  -> [exc |-> "none", n |-> 7]
      [] OTHER    -> [exc |-> "ValueError", n |-> 0]

\* int(x)
int(x) ==
    CASE x.t \in {"int", "bool"} -> [exc |-> "none", n |-> x.n]
      [] x.t = "float" -> [exc |-> "none", n |-> IF x.n >= 0 THEN x.n ELSE x.n + 1]
      [] x.t = "str"   -> IntOfStr(x.s)
      [] OTHER         -> [exc |-> "TypeError", n |-> 0]

\* can_cast after cast_type(x) gave c: only ValueError is caught
cast_tried(c) ==
    CASE c.exc = "none"       -> [exc |-> "none", ret |-> TRUE]
      [] c.exc = "ValueError" -> [exc |-> "none", ret |-> FALSE]
      [] OTHER                -> [exc |-> c.exc, ret |-> FALSE]

\* can_cast(x, int): True, False, or the exception it lets through
can_cast(x) == cast_tried(int(x))

\* return self.set(...): what set returned, or the exception that left it
Returned(r) == [s |-> r.s, file |-> r.file, ret |-> r.ret, exc |-> r.exc]

\* the last line of increment, on the instance t
add(t, f, save_flag, num) == Returned(set(t, f, JInt(int(t.data).n + num), save_flag))

\* increment() after can_cast gave c
incremented(s, f, save_flag, num, c) ==
    IF c.exc # "none" THEN [s |-> s, file |-> f, ret |-> FALSE, exc |-> c.exc]
    ELSE add(IF c.ret THEN s ELSE set(s, f, JInt(0), FALSE).s, f, save_flag, num)

\* (mutant) increment does not hand save_flag on to set
increment_never_saves(s, f, save_flag, num) ==
    incremented(s, f, FALSE, num, can_cast(s.data))

\* JsonData.increment
increment(s, f, save_flag, num) ==
    incremented(s, f, save_flag, num, can_cast(s.data))

\* the characters of a str, for the keys of the model
Chars(k) ==
    CASE k = "stats" -> <<"s", "t", "a", "t", "s">>
      [] k = "count" -> <<"c", "o", "u", "n", "t">>
      [] OTHER       -> <<k>>

\* JsonData.get_keys: tuple(self.keys); the tuple of a str is the tuple of
\* its characters
get_keys(s) == IF s.keys.bare THEN Chars(s.keys.ks[1]) ELSE s.keys.ks

\* JsonData.get_default
get_default(s) == s.default

\* JsonData.file_exists: self.path.is_file()
file_exists(f) == f.kind \in {"text", "unreadable"}

----------------------------------------------------------------------------
(* The inputs of the model *)

\* (keys, default) given to the constructor
Configs == { <<BareKey("stats"), JNull>>,
             <<KeyList(<<"stats", "count">>), JInt(0)>> }

\* values given to set()
SetValues == { JInt(99), JStr("abc"), JNull, JArr(<<JFloat(1), D1("c", JBool(FALSE))>>) }

\* num given to increment()
Deltas == { 1, 5 }

\* documents found at the path
Documents ==
    { EmptyDict,
      D1("stats", D2("count", JInt(1), "c", JInt(2))),
      D2("stats", JStr("7"), "c", JArr(<<JBool(TRUE), JFloat(1)>>)),
      JArr(<<JInt(1)>>) }

\* texts that are no JSON value: an empty file, a truncated one
BrokenTexts == { <<>>, <<Tok("{"), StrTok("stats"), Tok(":")>> }

Files == {NoDir, Missing, Unreadable}
         \cup { FileOf(d) : d \in Documents }
         \cup { Text(b) : b \in BrokenTexts }

Insts == {1}

----------------------------------------------------------------------------
(* The state machine *)

\* what the last call returned: ret its bool (for a constructor, that of the
\* load it ran), exc the exception it raised, val the value get() or
\* get_default() returned, keys the tuple get_keys() returned; prev tells
\* whether the call before it was a save() or a set()
Record(op, i, ret, exc, val, save_flag, num, prev) ==
    [op |-> op, inst |-> i, ret |-> ret, exc |-> exc, val |-> val,
     save_flag |-> save_flag, num |-> num, prev |-> prev, keys |-> <<>>]

\* the save() of an instance: not called yet, between its re-read and its
\* write (json_data is what it read), returned (json_data is what it merged)
Idle          == [pc |-> "idle", json_data |-> EmptyDict, ret |-> FALSE]
Merging(doc)  == [pc |-> "read", json_data |-> doc, ret |-> FALSE]
Done(doc, ret) == [pc |-> "done", json_data |-> doc, ret |-> ret]

Call(op, i, ret, exc, val, save_flag, num) ==
    Record(op, i, ret, exc, val, save_flag, num,
           IF last.op \in {"save", "set"} THEN last.op ELSE "other")

Init ==
    /\ file \in Files
    /\ \E c \in Configs :
          LET r == JsonData(c[1], c[2], file)
          IN /\ store = [i \in Insts |-> r.s]
             /\ last = Record("init", 1, r.ret, r.exc, JNull, FALSE, 0, "other")
    /\ saving = [i \in Insts |-> Idle]

\* a fresh instance: JsonData(keys, default, path)
New(i, keys, default) ==
    LET r == JsonData(keys, default, file)
    IN /\ store' = [store EXCEPT ![i] = r.s]
       /\ last' = Call("init", i, r.ret, r.exc, JNull, FALSE, 0)
       /\ UNCHANGED <<file, saving>>

DoLoad(i) ==
    LET r == load(store[i], file)
    IN /\ store' = [store EXCEPT ![i] = r.s]
       /\ last' = Call("load", i, r.ret, r.exc, JNull, FALSE, 0)
       /\ UNCHANGED <<file, saving>>

DoSave(i) ==
    LET r == save(store[i], file)
    IN /\ file' = r.file
       /\ last' = Call("save", i, r.ret, r.exc, JNull, TRUE, 0)
       /\ UNCHANGED <<store, saving>>

DoGet(i) ==
    /\ last' = Call("get", i, FALSE, "none", store[i].data, FALSE, 0)
    /\ UNCHANGED <<file, store, saving>>

DoGetKeys(i) ==
    /\ last' = [Call("get_keys", i, FALSE, "none", JNull, FALSE, 0)
                    EXCEPT !.keys = get_keys(store[i])]
    /\ UNCHANGED <<file, store, saving>>

DoGetDefault(i) ==
    /\ last' = Call("get_default", i, FALSE, "none", get_default(store[i]), FALSE, 0)
    /\ UNCHANGED <<file, store, saving>>

DoFileExists(i) ==
    /\ last' = Call("file_exists", i, file_exists(file), "none", JNull, FALSE, 0)
    /\ UNCHANGED <<file, store, saving>>

DoSet(i, data, save_flag) ==
    LET r == set(store[i], file, data, save_flag)
    IN /\ store' = [store EXCEPT ![i] = r.s]
       /\ file' = r.file
       /\ last' = Call("set", i, r.ret, r.exc, JNull, save_flag, 0)
       /\ UNCHANGED saving

\* counters stay within MaxInt: an int is incremented only up to MaxInt
DoIncrement(i, save_flag, num) ==
    LET r == increment(store[i], file, save_flag, num)
    IN /\ store[i].data.t = "int" => store[i].data.n + num <= MaxInt
       /\ store' = [store EXCEPT ![i] = r.s]
       /\ file' = r.file
       /\ last' = Call("increment", i, r.ret, r.exc, JNull, save_flag, num)
       /\ UNCHANGED saving

\* something else replaces, removes or damages the file between two calls
Env(f) ==
    /\ f # file
    /\ file' = f
    /\ last' = Call("env", 0, FALSE, "none", JNull, FALSE, 0)
    /\ UNCHANGED <<store, saving>>

Next ==
    \/ \E i \in Insts, c \in Configs : New(i, c[1], c[2])
    \/ \E i \in Insts : DoLoad(i)
    \/ \E i \in Insts : DoSave(i)
    \/ \E i \in Insts : DoGet(i)
    \/ \E i \in Insts : DoGetKeys(i)
    \/ \E i \in Insts : DoGetDefault(i)
    \/ \E i \in Insts : DoFileExists(i)
    \/ \E i \in Insts, data \in SetValues, save_flag \in BOOLEAN : DoSet(i, data, save_flag)
    \/ \E i \in Insts, save_flag \in BOOLEAN, num \in Deltas : DoIncrement(i, save_flag, num)
    \/ \E f \in Files : Env(f)

Spec == Init /\ [][Next]_vars

----------------------------------------------------------------------------
(* Two instances on one file, each used by a thread of its own: a save() is
   two steps, its re-read and its merge and write, and the steps of the two
   instances interleave. The write of save_json is taken as one step. *)

Insts2 == {1, 2}

\* documents at the path when the instances are constructed
Documents2 ==
    { D1("stats", D2("count", JInt(1), "c", JInt(2))),
      D2("stats", JStr("7"), "c", JArr(<<JBool(TRUE), JFloat(1)>>)) }

\* (keys, default) of the second instance; the first has [stats, count], 0
Configs2 == { <<KeyList(<<"stats", "c">>), JNull>>, <<BareKey("stats"), JNull>> }

\* the value each instance gives to set()
SetValue2(i) == IF i = 1 THEN JInt(99) ELSE JStr("abc")

Init2 ==
    /\ file \in { FileOf(d) : d \in Documents2 }
    /\ \E c \in Configs2 :
          store = [i \in Insts2 |->
                      IF i = 1 THEN JsonData(KeyList(<<"stats", "count">>), JInt(0), file).s
                      ELSE JsonData(c[1], c[2], file).s]
    /\ last = Record("init", 2, TRUE, "none", JNull, FALSE, 0, "other")
    /\ saving = [i \in Insts2 |-> Idle]

\* save() up to its re-read: refused under the load-failure flag, given up
\* when the re-read fails, otherwise json_data is the document read
SaveRead(i) ==
    /\ saving[i].pc # "read"
    /\ LET b == Reread(load_json(file))
       IN IF store[i].load_error_flag \/ b.abort
          THEN /\ saving' = [saving EXCEPT ![i] = Done(EmptyDict, FALSE)]
               /\ last' = Call("save", i, FALSE, "none", JNull, TRUE, 0)
          ELSE /\ saving' = [saving EXCEPT ![i] = Merging(b.doc)]
               /\ UNCHANGED last
    /\ UNCHANGED <<file, store>>

\* the rest of save() after update_nest_dict gave u
SaveWritten(i, u) ==
    LET r == write(file, u)
    IN /\ file' = r.file
       /\ saving' = [saving EXCEPT ![i] = Done(u.d, r.ret)]
       /\ last' = Call("save", i, r.ret, r.exc, JNull, TRUE, 0)
       /\ UNCHANGED store

\* (mutant) the write merges into the document as it is now
SaveWriteFresh(i) ==
    /\ saving[i].pc = "read"
    /\ SaveWritten(i, update_nest_dict(Reread(load_json(file)).doc,
                                       store[i].keys.ks, store[i].data))

\* save() from its re-read on: merge the stored value into json_data, write
SaveWrite(i) ==
    /\ saving[i].pc = "read"
    /\ SaveWritten(i, update_nest_dict(saving[i].json_data,
                                       store[i].keys.ks, store[i].data))

\* an instance makes its calls one after the other: none while its save()
\* is under way
Load2(i) == saving[i].pc # "read" /\ DoLoad(i)

Set2(i, save_flag) == saving[i].pc # "read" /\ DoSet(i, SetValue2(i), save_flag)

Next2 ==
    \/ \E i \in Insts2 : Load2(i)
    \/ \E i \in Insts2, save_flag \in BOOLEAN : Set2(i, save_flag)
    \/ \E i \in Insts2 : SaveRead(i)
    \/ \E i \in Insts2 : SaveWrite(i)

SpecTwo == Init2 /\ [][Next2]_vars

----------------------------------------------------------------------------
(* Properties *)

\* the file holds a JSON document / the document it holds
HasDoc(f) == f.kind = "text" /\ Loads(f.toks).ok
Doc(f)    == Loads(f.toks).v
IsMalformed(f) == f.kind = "text" /\ ~Loads(f.toks).ok

\* the key path of instance i, its stored value
Path(i) == store[i].keys.ks
Data(i) == store[i].data

\* the key path ks resolves in d: every key is found in a mapping
RECURSIVE Resolves(_, _)
Resolves(d, ks) ==
    /\ d.t = "obj"
    /\ ks[1] \in DOMAIN d.o
    /\ Len(ks) > 1 => Resolves(d.o[ks[1]], Tail(ks))

\* the value at a key path that resolves
RECURSIVE ValueAt(_, _)
ValueAt(d, ks) == IF Len(ks) = 1 THEN d.o[ks[1]] ELSE ValueAt(d.o[ks[1]], Tail(ks))

\* a key of ks is absent from the mapping in which it is looked up
RECURSIVE KeyAbsent(_, _)
KeyAbsent(d, ks) ==
    /\ d.t = "obj"
    /\ \/ ks[1] \notin DOMAIN d.o
       \/ Len(ks) > 1 /\ ks[1] \in DOMAIN d.o /\ KeyAbsent(d.o[ks[1]], Tail(ks))

\* C1: when the key path resolves in the document, load() (also the one run
\* by the constructor) returns true and get() is the value at the key path.
C1_LoadGetsValueAtPath ==
    (last.op \in {"init", "load"} /\ HasDoc(file) /\ Resolves(Doc(file), Path(1)))
        => (last.ret /\ Data(1) = ValueAt(Doc(file), Path(1)))

C1_Witness ==
    /\ last.op = "load"
    /\ HasDoc(file) /\ Resolves(Doc(file), Path(1))
    /\ Len(Path(1)) = 2
    /\ Data(1) = JInt(99)
    /\ Data(1) # store[1].default

\* C2 (as claimed): when the file is missing or a key of the path is absent
\* from a mapping, load() returns true, get() is the default and the
\* load-failure flag is not set.
C2_AbsentGivesDefaultFlagClear ==
    (/\ last.op \in {"init", "load"}
     /\ \/ file.kind \in {"missing", "nodir"}
        \/ HasDoc(file) /\ KeyAbsent(Doc(file), Path(1)))
        => (last.ret /\ Data(1) = store[1].default /\ ~store[1].load_error_flag)

\* C3 (as claimed, for a file that exists): set(V, persist=true), then a
\* fresh load()/get() on the same key path and document, returns V.
C3_RoundTrip ==
    [][ (/\ last.op = "set" /\ last.save_flag /\ file.kind = "text"
         /\ last'.op \in {"init", "load"}
         /\ Path(1)' = Path(1))
            => Data(1)' = Data(1) ]_vars

\* C3 (amended): when set(V, persist=true) returns true, a fresh
\* load()/get() on the same key path returns V.
C3_RoundTripWhenSaved ==
    [][ (/\ last.op = "set" /\ last.save_flag /\ last.ret
         /\ last'.op \in {"init", "load"}
         /\ Path(1)' = Path(1))
            => Data(1)' = Data(1) ]_vars

\* a store constructed right after a set() holds "abc" at stats.count: no
\* document of the model has it there, set("abc", persist=true) wrote it
C3_Witness ==
    /\ last.op = "init" /\ last.ret /\ last.prev = "set"
    /\ Path(1) = <<"stats", "count">>
    /\ Data(1) = JStr("abc")
    /\ HasDoc(file) /\ Resolves(Doc(file), Path(1))

\* the document save() merges into: the one it re-read, or an empty mapping
BaseDoc(f) == IF HasDoc(f) THEN Doc(f) ELSE EmptyDict

\* after differs from before only along ks: every other key keeps its value,
\* a mapping on the path is the old one or a new one
RECURSIVE FrameOK(_, _, _)
FrameOK(before, after, ks) ==
    /\ before.t = "obj" /\ after.t = "obj"
    /\ DOMAIN after.o = (DOMAIN before.o) \cup {ks[1]}
    /\ \A k \in (DOMAIN before.o) \ {ks[1]} : after.o[k] = before.o[k]
    /\ Len(ks) > 1 =>
          FrameOK(IF ks[1] \in DOMAIN before.o THEN before.o[ks[1]] ELSE EmptyDict,
                  after.o[ks[1]], Tail(ks))

\* the call ran save(): save() itself, or set/increment with save_flag
Saving(c) == c.op \in {"save", "set", "increment"} /\ c.save_flag /\ c.exc = "none"

\* C4: after a save() that returns true, every key off the key path has the
\* value it had in the document save re-read; only mappings along the path
\* are created and the leaf at the path is the stored value.
C4_MergePreservesForeign ==
    [][ (Saving(last') /\ last'.ret)
            => /\ HasDoc(file')
               /\ FrameOK(BaseDoc(file), Doc(file'), Path(1))
               /\ ValueAt(Doc(file'), Path(1)) = Data(1)' ]_vars

\* {"stats": {"count": 1, "c": 2}} with path [stats, count] and
\* set(99, persist=true) gives {"stats": {"count": 99, "c": 2}}
C4_Witness ==
    /\ last.op = "set" /\ last.save_flag /\ last.ret
    /\ Path(1) = <<"stats", "count">>
    /\ HasDoc(file)
    /\ Doc(file) = D1("stats", D2("count", JInt(99), "c", JInt(2)))

\* C5: while the load-failure flag is set, get/set/increment/save leave it
\* set, and every save (direct or through set or increment) returns false
\* and leaves the file as it is.
C5_FailedLoadRefusesSave ==
    [][ (store[1].load_error_flag /\ last'.op \in {"get", "set", "increment", "save"})
            => /\ store'[1].load_error_flag
               /\ ~last'.ret
               /\ file' = file ]_vars

C5_Witness ==
    /\ store[1].load_error_flag
    /\ last.op = "set" /\ last.save_flag /\ ~last.ret
    /\ Data(1) = JInt(99)
    /\ IsMalformed(file)

\* C6: load() (also the one run by the constructor) on a file of malformed
\* JSON returns false, the stored value is the default, the load-failure
\* flag is set and the file is left as it is.
C6_MalformedLoadFails ==
    [][ (last'.op \in {"init", "load"} /\ IsMalformed(file))
            => /\ ~last'.ret
               /\ Data(1)' = store'[1].default
               /\ store'[1].load_error_flag
               /\ file' = file ]_vars

\* a load() that replaced a value set before by the default
C6_Witness ==
    /\ last.op = "load" /\ ~last.ret
    /\ IsMalformed(file)
    /\ store[1].load_error_flag
    /\ Data(1) = store[1].default

\* C7 (as claimed): a load() that succeeds ends the failed-load state: the
\* load-failure flag is clear after it, so that save() is not refused.
C7_SuccessfulLoadClearsFlag ==
    (last.op = "load" /\ last.ret) => ~store[1].load_error_flag

\* int(x) as the claim has it: the integer x stands for, 0 when it stands
\* for none
AsInt(x) == IF int(x).exc = "none" THEN int(x).n ELSE 0

\* C8 (as claimed): increment never fails; get() afterwards is
\* as_int(get()) + delta, with as_int 0 for what is no integer.
C8_IncrementSelfHeals ==
    [][ last'.op = "increment"
            => /\ last'.exc = "none"
               /\ Data(1)' = JInt(AsInt(Data(1)) + last'.num) ]_vars

\* {} for n = 0, {"stats": {"count": n}} otherwise
CountDoc(n) == IF n = 0 THEN EmptyDict ELSE D1("stats", D1("count", JInt(n)))

\* C9: on a freshly constructed store with key path [stats, count] and
\* default 0, over the document a run of n such increments from {} has left,
\* increment(persist=true) returns true and leaves {"stats": {"count": n+1}}.
C9_PersistentCounter ==
    [][ (/\ last.op = "init"
         /\ Path(1) = <<"stats", "count">> /\ store[1].default = JInt(0)
         /\ HasDoc(file) /\ \E n \in 0..MaxInt : Doc(file) = CountDoc(n)
         /\ last'.op = "increment" /\ last'.save_flag /\ last'.num = 1)
            => /\ last'.ret
               /\ HasDoc(file')
               /\ \E n \in 0..MaxInt : Doc(file) = CountDoc(n) /\ Doc(file') = CountDoc(n + 1) ]_vars

C9_Witness ==
    /\ last.op = "increment" /\ last.save_flag /\ last.num = 1 /\ last.ret
    /\ HasDoc(file) /\ Doc(file) = CountDoc(2)
    /\ Data(1) = JInt(2)

\* the two files hold the same document (the same file when none is held)
SameDocument(f, g) ==
    /\ g.kind = f.kind
    /\ IF HasDoc(f) THEN HasDoc(g) /\ Doc(g) = Doc(f) ELSE g = f

\* C10: a save() right after a save() leaves the document as the first one
\* left it and returns what the first one returned.
C10_SaveIdempotent ==
    [][ (last.op = "save" /\ last'.op = "save")
            => (SameDocument(file, file') /\ last'.ret = last.ret) ]_vars

\* two saves in a row that both wrote the document
C10_Witness ==
    /\ last.op = "save" /\ last.ret /\ last.prev = "save"
    /\ HasDoc(file)
    /\ Doc(file) = D2("stats", JArr(<<JFloat(1), D1("c", JBool(FALSE))>>),
                       "c", JArr(<<JBool(TRUE), JFloat(1)>>))

\* the document has a key of the path (before the last) whose value is no
\* mapping, or is no mapping itself
RECURSIVE NonMappingOnPath(_, _)
NonMappingOnPath(d, ks) ==
    \/ d.t # "obj"
    \/ Len(ks) > 1 /\ ks[1] \in DOMAIN d.o /\ NonMappingOnPath(d.o[ks[1]], Tail(ks))

\* C11: the constructor, load(), save() and set() never raise, whatever the
\* file is (missing, malformed, unreadable, a document with or without the
\* key path, with a non-mapping root or a non-mapping value on the path): a
\* failure shows only in the value returned, the load-failure flag and the
\* stored value.
C11_NeverRaises ==
    last.op \in {"init", "load", "save", "set"} => last.exc = "none"

\* a save() that met a non-mapping value on the key path in the document it
\* re-read: it returned false
C11_Witness ==
    /\ last.op = "save" /\ ~last.ret /\ last.exc = "none"
    /\ ~store[1].load_error_flag
    /\ HasDoc(file) /\ NonMappingOnPath(Doc(file), Path(1))
    /\ Len(Path(1)) = 2

\* C12 (as claimed): a store constructed with a bare string key k has the key
\* path (k) for its whole lifetime: get_keys() returns the one-element
\* sequence (k) in every state.
C12_BareKeyIsOnePath ==
    (last.op = "get_keys" /\ Len(Path(1)) = 1) => last.keys = Path(1)

\* the call is one that does not save
NotSaving(c) ==
    \/ c.op \in {"get", "load", "get_keys", "get_default", "file_exists"}
    \/ c.op \in {"set", "increment"} /\ ~c.save_flag

\* C13: get(), set(v, persist=false), increment(persist=false), load() and
\* the queries get_keys(), get_default(), file_exists() leave the file as it
\* is; the queries and get() leave the instance as it is; set(v,
\* persist=false) returns false.
C13_OnlySaveWrites ==
    [][ /\ NotSaving(last') => file' = file
        /\ last'.op \in {"get", "get_keys", "get_default", "file_exists"} => store' = store
        /\ (last'.op = "set" /\ ~last'.save_flag) => ~last'.ret ]_vars

\* after set(99, persist=false) on a store whose save would not be refused,
\* the document still has another value at the key path
C13_Witness ==
    /\ last.op = "set" /\ ~last.save_flag /\ ~last.ret
    /\ ~store[1].load_error_flag
    /\ Data(1) = JInt(99)
    /\ HasDoc(file) /\ Resolves(Doc(file), Path(1))
    /\ ValueAt(Doc(file), Path(1)) = JInt(1)

\* C14 (as claimed): a load() (also the one run by the constructor) that
\* starts with the load-failure flag clear and meets a non-mapping value
\* where the key path needs a mapping treats it as a missing key: it returns
\* true, the stored value is the default and the flag stays clear.
C14_NonMappingIsMissingKey ==
    [][ (/\ last'.op = "init" \/ (last'.op = "load" /\ ~store[1].load_error_flag)
         /\ HasDoc(file) /\ NonMappingOnPath(Doc(file), Path(1)'))
            => /\ last'.ret
               /\ Data(1)' = store'[1].default
               /\ ~store'[1].load_error_flag ]_vars

\* a key of ks before the last is in the document and its value is no
\* mapping
RECURSIVE MergeConflict(_, _)
MergeConflict(d, ks) ==
    /\ d.t = "obj"
    /\ Len(ks) > 1
    /\ ks[1] \in DOMAIN d.o
    /\ \/ d.o[ks[1]].t # "obj"
       \/ MergeConflict(d.o[ks[1]], Tail(ks))

\* C15: when the document save() re-reads has, at a key of the path before
\* the last, a value that is no mapping, the save (direct or through set or
\* increment) returns false and leaves the file as it is.
C15_MergeConflictAborts ==
    [][ (Saving(last') /\ HasDoc(file) /\ MergeConflict(Doc(file), Path(1)))
            => (~last'.ret /\ file' = file) ]_vars

\* set(99, persist=true) with the flag clear, refused over
\* {"stats": "7", "c": [true, 1.0]}
C15_Witness ==
    /\ last.op = "set" /\ last.save_flag /\ ~last.ret
    /\ ~store[1].load_error_flag
    /\ Path(1) = <<"stats", "count">>
    /\ Data(1) = JInt(99)
    /\ HasDoc(file)
    /\ Doc(file) = D2("stats", JStr("7"), "c", JArr(<<JBool(TRUE), JFloat(1)>>))

\* C16 (as claimed): when the load-failure flag is clear and the re-read of
\* a save (direct or through set or increment) finds no file or malformed
\* JSON, the save returns true and leaves exactly the nested mappings of the
\* key path ending in the stored value.
C16_SaveStartsFromEmpty ==
    [][ (/\ Saving(last') /\ ~store[1].load_error_flag
         /\ file.kind \in {"missing", "nodir"} \/ IsMalformed(file))
            => /\ last'.ret
               /\ HasDoc(file')
               /\ Doc(file') = Nested(Path(1), Data(1)') ]_vars

\* C17 (as claimed): the first save (direct or through set or increment) of
\* a store constructed where no file is, the directory of the path missing
\* or not, returns true and leaves a document at the path.
C17_FirstSaveCreatesDocument ==
    [][ (/\ last.op = "init" /\ file.kind \in {"missing", "nodir"}
         /\ Saving(last'))
            => (last'.ret /\ HasDoc(file')) ]_vars

\* C18: a save() whose write comes after another instance's save() changed
\* the document it re-read (the other save wrote between its two steps)
\* returns true like that other save, and leaves the document it read with
\* only its own key path changed: the stored value is at its key path and
\* everything else, the other instance's key path too, is as it was read,
\* so the other save's update is lost.
C18_LostUpdate ==
    [][ \A i \in Insts2 :
          (/\ saving[i].pc = "read" /\ saving'[i].pc = "done"
           /\ last.op = "save" /\ last.inst # i /\ last.ret
           /\ Doc(file) # saving[i].json_data
           /\ ~NonMappingOnPath(saving[i].json_data, Path(i)))
              => /\ last'.ret
                 /\ HasDoc(file')
                 /\ FrameOK(saving[i].json_data, Doc(file'), Path(i))
                 /\ ValueAt(Doc(file'), Path(i)) = Data(i) ]_vars

\* both saves returned true; the first instance wrote 99 at stats.count, the
\* second "abc" at stats.c last: the document has "abc" there and the 1 at
\* stats.count that the second instance had read
C18_Witness ==
    /\ last.op = "save" /\ last.inst = 2 /\ last.ret
    /\ saving[1].pc = "done" /\ saving[1].ret
    /\ saving[2].pc = "done" /\ saving[2].ret
    /\ Path(1) = <<"stats", "count">> /\ Path(2) = <<"stats", "c">>
    /\ ValueAt(saving[1].json_data, Path(1)) = JInt(99)
    /\ Doc(file) = D1("stats", D2("count", JInt(1), "c", JStr("abc")))

\* p is the beginning of q
IsPrefix(p, q) == Len(p) <= Len(q) /\ SubSeq(q, 1, Len(p)) = p

NeitherPrefix(p, q) == ~IsPrefix(p, q) /\ ~IsPrefix(q, p)

\* the last call was set(v, persist=true), made by instance i
PersistentSet(c, i) == c.op = "set" /\ c.save_flag /\ c.inst = i

\* C19 (as claimed): when two instances address key paths of one valid
\* document, neither path the beginning of the other, and their set(v,
\* persist=true) calls run one right after the other, both return true and
\* the document then holds both values at their key paths.
C19_SequentialSavesCompose ==
    [][ \A i, j \in Insts2 :
          (/\ i # j /\ NeitherPrefix(Path(i), Path(j))
           /\ HasDoc(file)
           /\ PersistentSet(last, j) /\ PersistentSet(last', i))
              => /\ last.ret /\ last'.ret
                 /\ HasDoc(file')
                 /\ Resolves(Doc(file'), Path(i)) /\ ValueAt(Doc(file'), Path(i)) = Data(i)'
                 /\ Resolves(Doc(file'), Path(j)) /\ ValueAt(Doc(file'), Path(j)) = Data(j)'
      ]_vars

\* C19 (amended): a set(v, persist=true) of an instance whose load-failure
\* flag is clear, on a valid document that has no non-mapping value where
\* its key path needs a mapping, returns true and leaves its value at its key
\* path; when it comes right after such a set of the other instance that
\* returned true, neither path the beginning of the other, the document then
\* holds both values.
C19_SequentialSavesComposeOnMappings ==
    [][ \A i, j \in Insts2 :
          (/\ i # j
           /\ PersistentSet(last', i)
           /\ ~store[i].load_error_flag
           /\ HasDoc(file) /\ ~NonMappingOnPath(Doc(file), Path(i)))
              => /\ last'.ret
                 /\ HasDoc(file')
                 /\ Resolves(Doc(file'), Path(i)) /\ ValueAt(Doc(file'), Path(i)) = Data(i)'
                 /\ (PersistentSet(last, j) /\ last.ret /\ NeitherPrefix(Path(i), Path(j)))
                       => /\ Resolves(Doc(file'), Path(j))
                          /\ ValueAt(Doc(file'), Path(j)) = Data(j)'
      ]_vars

\* no save() was ever made in two steps; after set(99, persist=true) of the
\* first instance and set("abc", persist=true) of the second the document
\* holds both values
C19_Witness ==
    /\ PersistentSet(last, 2) /\ last.ret /\ last.prev = "set"
    /\ \A i \in Insts2 : saving[i] = Idle
    /\ Path(1) = <<"stats", "count">> /\ Path(2) = <<"stats", "c">>
    /\ Data(1) = JInt(99) /\ Data(2) = JStr("abc")
    /\ HasDoc(file)
    /\ Doc(file) = D1("stats", D2("count", JInt(99), "c", JStr("abc")))

====
